---- MODULE Spec2Model ----
(***************************************************************************)
(* ReferenceClass (src/src/models/reference_class.py): construction with   *)
(* the train/val/eval split, the projected-gradient driver PGDOptim with   *)
(* its best-so-far tracker, the pairwise selection merge, and the final    *)
(* model selection of forward.                                             *)
(*                                                                         *)
(* Tensors are functions over their index sets.  A float is a record:     *)
(* finite floats carry an integer, and the IEEE values inf, -inf and nan   *)
(* are kept apart, because pairwise_select merges by mask arithmetic.      *)
(***************************************************************************)
EXTENDS Integers, Sequences, FiniteSets, TLC

\* ------------------------------------------------------------------ bounds
\* Largest dataset size len(dataset) the constructor is tried on.
MaxLen == 3
\* Fractions are k / FracDen; a fraction list is a sequence of numerators k.
FracDen == 2
\* Longest subset_fracs list the constructor is tried on.
MaxFracs == 3
\* Largest num_iter.
MaxIter == 2

\* Axes of the observation batch [num observations, num predictors, dim sample].
\* Every axis has at least two entries, so that squeeze() in error_tracker
\* removes no axis.
Obs == 0 .. 1
Preds == 0 .. 1
Dims == 1 .. 2
Pairs == Obs \X Preds

\* Optional values: None, or a one-element sequence holding the value.
None == << >>
Some(x) == << x >>

\* ------------------------------------------------------------------ floats
Fin(n) == [cls |-> "fin", v |-> n]
NaN == [cls |-> "nan", v |-> 0]
PosInf == [cls |-> "inf", v |-> 1]
NegInf == [cls |-> "inf", v |-> -1]

Sign(n) == IF n > 0 THEN 1 ELSE IF n < 0 THEN -1 ELSE 0

\* torch's elementwise product of two floats: 0 * inf and anything with nan
\* is nan.
FMul(a, b) ==
    IF a.cls = "nan" \/ b.cls = "nan" THEN NaN
    ELSE IF a.cls = "inf" \/ b.cls = "inf"
         THEN IF Sign(a.v) * Sign(b.v) = 0 THEN NaN
              ELSE [cls |-> "inf", v |-> Sign(a.v) * Sign(b.v)]
         ELSE Fin(a.v * b.v)

\* torch's elementwise sum of two floats: inf + (-inf) is nan.
FAdd(a, b) ==
    IF a.cls = "nan" \/ b.cls = "nan" THEN NaN
    ELSE IF a.cls = "inf" /\ b.cls = "inf"
         THEN IF a.v = b.v THEN a ELSE NaN
         ELSE IF a.cls = "inf" THEN a
         ELSE IF b.cls = "inf" THEN b
         ELSE Fin(a.v + b.v)

\* torch's elementwise a < b: false when either side is nan.
FLt(a, b) ==
    IF a.cls = "nan" \/ b.cls = "nan" THEN FALSE
    ELSE IF a.cls = "inf" /\ b.cls = "inf" THEN a.v < b.v
         ELSE IF a.cls = "inf" THEN a.v < 0
         ELSE IF b.cls = "inf" THEN b.v > 0
         ELSE a.v < b.v

\* A boolean mask entry used as a factor: True is 1, False is 0.
MaskVal(b) == Fin(IF b THEN 1 ELSE 0)

\* ----------------------------------------------------------------- helpers
RECURSIVE SumSeq(_)
SumSeq(s) == IF s = << >> THEN 0 ELSE Head(s) + SumSeq(Tail(s))

\* All sequences over S of length at most n.
RECURSIVE SeqsUpTo(_, _)
SeqsUpTo(S, n) ==
    IF n = 0 THEN { << >> }
    ELSE LET shorter == SeqsUpTo(S, n - 1)
         IN  shorter \cup { Append(s, x) : s \in { t \in shorter : Len(t) = n - 1 }, x \in S }

Range(s) == { s[k] : k \in 1 .. Len(s) }

\* The permutations of 0 .. n-1, as sequences.
Permutations0(n) ==
    { p \in [1 .. n -> 0 .. (n - 1)] : \A a, b \in 1 .. n : p[a] = p[b] => a = b }

\* ------------------------------------------------------------- environment
\* Dataset sizes and fraction lists of the instances that are run.
RunLens == { 2 }
RunFracs == { << 1 >>, << 1, 1 >> }
\* The lr given at construction.
LearningRates == { 2 }

ZeroVec == [d \in Dims |-> Fin(0)]

\* The observation batches forward is called with: every (observation,
\* predictor) pair starts from its own non-zero weight vector.
ObsInputs ==
    { [pr \in Pairs |-> [d \in Dims |-> Fin(10 * (2 * pr[1] + pr[2] + 1) + d)]] }

\* Error rates are kept in halves: the rate k / 2 is Fin(k), and ErrOne is
\* the rate 1, the value torch.ones fills the error tracker with.
ErrOne == Fin(2)
\* The error rates conditional_one_rate can return: 0, 1/2 and 1.
ErrorRates == { Fin(0), Fin(1), ErrOne }
\* The error tensors it can return: every tensor with a rate of 0 or 1 for
\* each pair, and every tensor whose rates 0, 1/2 or 1 follow the predictor.
ErrorTensors ==
    [Pairs -> { Fin(0), ErrOne }]
        \cup { [pr \in Pairs |-> row[pr[2]]] : row \in [Preds -> ErrorRates] }

\* The projected gradients proj_grad can return: zero outside a set of pairs,
\* and a vector of ones on it.
GradSupports == { {}, Pairs }
GradTensors ==
    { [pr \in Pairs |-> [d \in Dims |-> Fin(IF pr \in S THEN 1 ELSE 0)]] : S \in GradSupports }

\* ------------------------------------------------------------------- state
VARIABLES
    pc,                 \* "new", "raised", "ready", "loop", "score", "eval"
    ds_len,             \* len(dataset)
    subset_fracs,       \* numerators of the fractions given at construction
    num_iter,           \* self.num_iter
    lr,                 \* self.lr
    dataset_train,      \* self.dataset_train: None or Some(indices)
    dataset_val,        \* self.dataset_val
    dataset_eval,       \* self.dataset_eval
    split_called,       \* random_split has been called
    heap,               \* the weight tensors alive, by reference
    lin_model,          \* PGDOptim's lin_model: None or Some(reference)
    min_weights,        \* PGDOptim's min_weights: None or Some(reference)
    min_errors,         \* PGDOptim's min_errors: None or Some(tensor)
    iter,               \* iterations of the loop completed in this call
    updates,            \* gradient updates applied to the live model in this call
    converged_bar,      \* self.converged_bar.n
    scored,             \* the iterates scored in this call: <<[w, e], ...>>
    reused,             \* an earlier call on this instance has returned
    result,             \* what forward returned last: None or Some(record)
    sel_in,             \* arguments of a direct pairwise_select call
    sel_out             \* its result: None or Some(<<min_weight, min_error>>)

vars ==
    << pc, ds_len, subset_fracs, num_iter, lr, dataset_train, dataset_val,
       dataset_eval, split_called, heap, lin_model, min_weights, min_errors,
       iter, updates, converged_bar, scored, reused, result, sel_in, sel_out >>

\* ------------------------------------------------------------- construction
\* int(x) of a float num / den: truncation towards zero.
IntOf(num, den) == IF num >= 0 THEN num \div den ELSE -((-num) \div den)

\* SubsetSizes with round(x) in place of int(x).
SubsetSizesRounded(n, fracs) ==
    [k \in 1 .. Len(fracs) |-> (2 * n * fracs[k] + FracDen) \div (2 * FracDen)]

\* subset_sizes = [int(len(dataset) * frac) for frac in subset_fracs]
SubsetSizes(n, fracs) == [k \in 1 .. Len(fracs) |-> IntOf(n * fracs[k], FracDen)]

\* torch.utils.data.random_split(dataset, lengths): refuses lengths that do
\* not sum to len(dataset); otherwise cuts the permutation perm of the
\* indices into consecutive subsets of the given lengths.
random_split(n, lengths, perm) ==
    IF SumSeq(lengths) # n \/ \E k \in 1 .. Len(lengths) : lengths[k] < 0
    THEN [ok |-> FALSE, parts |-> << >>]
    ELSE [ok |-> TRUE,
          parts |-> [k \in 1 .. Len(lengths) |->
                        SubSeq(perm, SumSeq(SubSeq(lengths, 1, k - 1)) + 1,
                                     SumSeq(SubSeq(lengths, 1, k)))]]

NoSplit(called) ==
    [raised |-> TRUE, split_called |-> called,
     train |-> None, val |-> None, eval |-> None]

\* __init__ binding the second subset of a single fraction to dataset_val.
ReferenceClassInitValSlip(n, fracs, perm) ==
    IF SumSeq(fracs) > FracDen
    THEN NoSplit(FALSE)
    ELSE LET subset_sizes == SubsetSizes(n, fracs)
             split == random_split(n, Append(subset_sizes, n - SumSeq(subset_sizes)), perm)
         IN  IF Len(subset_sizes) = 1
             THEN IF split.ok
                  THEN [raised |-> FALSE, split_called |-> TRUE,
                        train |-> Some(split.parts[1]), val |-> Some(split.parts[2]),
                        eval |-> Some(split.parts[2])]
                  ELSE NoSplit(TRUE)
             ELSE IF Len(subset_sizes) = 2
             THEN IF split.ok
                  THEN [raised |-> FALSE, split_called |-> TRUE,
                        train |-> Some(split.parts[1]), val |-> Some(split.parts[2]),
                        eval |-> Some(split.parts[3])]
                  ELSE NoSplit(TRUE)
             ELSE NoSplit(FALSE)

\* __init__ with a plain else in place of elif len(subset_sizes) == 2: a list
\* of another length is split first, and fails when the subsets are unpacked.
ReferenceClassInitPlainElse(n, fracs, perm) ==
    IF SumSeq(fracs) > FracDen
    THEN NoSplit(FALSE)
    ELSE LET subset_sizes == SubsetSizes(n, fracs)
             split == random_split(n, Append(subset_sizes, n - SumSeq(subset_sizes)), perm)
         IN  IF Len(subset_sizes) = 1
             THEN IF split.ok
                  THEN [raised |-> FALSE, split_called |-> TRUE,
                        train |-> Some(split.parts[1]), val |-> None,
                        eval |-> Some(split.parts[2])]
                  ELSE NoSplit(TRUE)
             ELSE IF split.ok /\ Len(split.parts) = 3
                  THEN [raised |-> FALSE, split_called |-> TRUE,
                        train |-> Some(split.parts[1]), val |-> Some(split.parts[2]),
                        eval |-> Some(split.parts[3])]
                  ELSE NoSplit(TRUE)

\* ReferenceClass.__init__ from the check of the fractions on.
ReferenceClassInit(n, fracs, perm) ==
    IF SumSeq(fracs) > FracDen
    THEN NoSplit(FALSE)
    ELSE LET subset_sizes == SubsetSizes(n, fracs)
             split == random_split(n, Append(subset_sizes, n - SumSeq(subset_sizes)), perm)
         IN  IF Len(subset_sizes) = 1
             THEN IF split.ok
                  THEN [raised |-> FALSE, split_called |-> TRUE,
                        train |-> Some(split.parts[1]), val |-> None,
                        eval |-> Some(split.parts[2])]
                  ELSE NoSplit(TRUE)
             ELSE IF Len(subset_sizes) = 2
             THEN IF split.ok
                  THEN [raised |-> FALSE, split_called |-> TRUE,
                        train |-> Some(split.parts[1]), val |-> Some(split.parts[2]),
                        eval |-> Some(split.parts[3])]
                  ELSE NoSplit(TRUE)
             ELSE NoSplit(FALSE)

\* The state before __init__ runs, for given constructor arguments.
Unbuilt(n, fracs, iters, rate) ==
    /\ pc = "new"
    /\ ds_len = n
    /\ subset_fracs = fracs
    /\ num_iter = iters
    /\ lr = rate
    /\ dataset_train = None
    /\ dataset_val = None
    /\ dataset_eval = None
    /\ split_called = FALSE
    /\ heap = << >>
    /\ lin_model = None
    /\ min_weights = None
    /\ min_errors = None
    /\ iter = 0
    /\ updates = 0
    /\ converged_bar = 0
    /\ scored = << >>
    /\ reused = FALSE
    /\ result = None
    /\ sel_in = None
    /\ sel_out = None

\* __init__: the split is drawn at random.
New ==
    /\ pc = "new"
    /\ \E perm \in Permutations0(ds_len) :
          LET r == ReferenceClassInit(ds_len, subset_fracs, perm)
          IN  /\ pc' = IF r.raised THEN "raised" ELSE "ready"
              /\ dataset_train' = r.train
              /\ dataset_val' = r.val
              /\ dataset_eval' = r.eval
              /\ split_called' = r.split_called
    /\ UNCHANGED << ds_len, subset_fracs, num_iter, lr, heap, lin_model, min_weights,
                    min_errors, iter, updates, converged_bar, scored, reused,
                    result, sel_in, sel_out >>

\* Construction alone, over every fraction list of up to MaxFracs fractions
\* k / FracDen with 0 <= k <= FracDen + 1 and every dataset size up to MaxLen.
InitNew ==
    \E n \in 0 .. MaxLen, fracs \in SeqsUpTo(0 .. (FracDen + 1), MaxFracs) :
        \E rate \in LearningRates : Unbuilt(n, fracs, 0, rate)

SpecNew == InitNew /\ [][New]_vars

\* ------------------------------------------------------------- LinearModel
\* lin_model.size(): the shape of the weight tensor.
ModelSize == << Cardinality(Obs), Cardinality(Preds), Cardinality(Dims) >>

\* Tensor.squeeze() on a shape: the axes of size 1 are removed.
Squeeze(shape) == SelectSeq(shape, LAMBDA n : n # 1)

\* lin_model.update(weights=delta): the weights are updated in place.
Updated(w, delta) == [pr \in Pairs |-> [d \in Dims |-> FAdd(w[pr][d], delta[pr][d])]]

\* selectors.reduce(ids, dim=1): the weight vector at ids[o] of each observation.
Reduce(w, ids) == [o \in Obs |-> w[<< o, ids[o] >>]]

\* --------------------------------------------------------------- tracker
\* error_tracker handing out the tracker of the call before, when there is one.
error_tracker_kept(weight_shape) ==
    IF min_weights # None /\ min_errors # None
    THEN << heap[min_weights[1]], min_errors[1] >>
    ELSE << [pr \in Pairs |-> ZeroVec], [pr \in Pairs |-> ErrOne] >>

\* error_tracker: zero weights of the squeezed model shape, and unit errors
\* of the squeezed shape without its last axis.
error_tracker(weight_shape) ==
    LET ws == Squeeze(weight_shape)
        es == Squeeze(SubSeq(weight_shape, 1, Len(weight_shape) - 1))
    IN  << [pr \in (0 .. (ws[1] - 1)) \X (0 .. (ws[2] - 1)) |-> [d \in 1 .. ws[3] |-> Fin(0)]],
           [pr \in (0 .. (es[1] - 1)) \X (0 .. (es[2] - 1)) |-> ErrOne] >>

\* pairwise_select without the comparison: the current values always win.
pairwise_select_latest(curr_error, min_error, curr_weight, min_weight) ==
    << curr_weight, curr_error >>

\* pairwise_select: the mask of strictly improved pairs, and the two merges
\* written as the code writes them, as sums of masked products.
pairwise_select(curr_error, min_error, curr_weight, min_weight) ==
    LET indices == [pr \in Pairs |-> FLt(curr_error[pr], min_error[pr])]
        new_error ==
            [pr \in Pairs |->
                FAdd(FMul(min_error[pr], MaskVal(~indices[pr])),
                     FMul(curr_error[pr], MaskVal(indices[pr])))]
        new_weight ==
            [pr \in Pairs |-> [d \in Dims |->
                FAdd(FMul(min_weight[pr][d], MaskVal(~indices[pr])),
                     FMul(curr_weight[pr][d], MaskVal(indices[pr])))]]
    IN  << new_weight, new_error >>

\* ------------------------------------------------------------ grad_update
\* The threshold 0.025 on the gradient norm, as ThresholdNum / ThresholdDen.
ThresholdNum == 25
ThresholdDen == 1000

\* torch.norm(g, p=2) < 0.025 for a finite gradient vector g.
NormBelowThreshold(g) ==
    LET RECURSIVE SumSq(_)
        SumSq(D) == IF D = {} THEN 0
                    ELSE LET d == CHOOSE x \in D : TRUE
                         IN  g[d].v * g[d].v + SumSq(D \ { d })
    IN  SumSq(Dims) * ThresholdDen * ThresholdDen < ThresholdNum * ThresholdNum

\* int((torch.norm(proj_grads, p=2, dim=-1) < 0.025).sum())
ConvergedCount(proj_grads) ==
    Cardinality({ pr \in Pairs : NormBelowThreshold(proj_grads[pr]) })

\* The step - self.lr * proj_grads.
Step(rate, proj_grads) ==
    [pr \in Pairs |-> [d \in Dims |-> FMul(Fin(-rate), proj_grads[pr][d])]]

\* -------------------------------------------------------------- PGDOptim
\* dataset_val is not None
HasValidation == dataset_val # None

\* The loop left as soon as the bar counts every pair as converged.
LoopContinuesUntilConverged == iter < num_iter /\ converged_bar < Cardinality(Pairs)

\* for i in range(self.num_iter): another iteration follows.
LoopContinues == iter < num_iter

LiveWeights == heap[lin_model[1]]
BestWeights == heap[min_weights[1]]

\* A reference no live tensor has.
NewRef(h) == CHOOSE r \in 0 .. Cardinality(DOMAIN h) : r \notin DOMAIN h

\* forward up to the first iteration of PGDOptim: the progress bar is
\* created, the live model is built from the observations, and with a
\* validation split the tracker is initialised.
Forward ==
    /\ pc = "ready"
    /\ \E observations \in ObsInputs :
          IF HasValidation
          THEN LET t == error_tracker(ModelSize)
               IN  /\ heap' = (0 :> observations) @@ (1 :> t[1])
                   /\ lin_model' = Some(0)
                   /\ min_weights' = Some(1)
                   /\ min_errors' = Some(t[2])
          ELSE /\ heap' = (0 :> observations)
               /\ lin_model' = Some(0)
               /\ UNCHANGED << min_weights, min_errors >>
    /\ pc' = "loop"
    /\ iter' = 0
    /\ updates' = 0
    /\ converged_bar' = 0
    /\ scored' = << >>
    /\ result' = None
    /\ UNCHANGED << ds_len, subset_fracs, num_iter, lr, dataset_train, dataset_val,
                    dataset_eval, split_called, reused, sel_in, sel_out >>

\* grad_update: the live weights move by - lr * proj_grads in place, and the
\* progress bar shows the number of pairs with a small gradient.
GradUpdate ==
    /\ pc = "loop"
    /\ LoopContinues
    /\ \E proj_grads \in GradTensors :
          /\ heap' = [heap EXCEPT ![lin_model[1]] = Updated(@, Step(lr, proj_grads))]
          /\ converged_bar' = ConvergedCount(proj_grads)
    /\ updates' = updates + 1
    /\ IF HasValidation
       THEN pc' = "score" /\ iter' = iter
       ELSE pc' = "loop" /\ iter' = iter + 1
    /\ UNCHANGED << ds_len, subset_fracs, num_iter, lr, dataset_train, dataset_val,
                    dataset_eval, split_called, lin_model, min_weights, min_errors,
                    scored, reused, result, sel_in, sel_out >>

\* ScoreSelect with a merge that hands back curr_weight itself, not a new
\* tensor, when every pair has improved.
ScoreSelectAliased ==
    /\ pc = "score"
    /\ \E conditional_error_rates \in ErrorTensors :
          LET merged == pairwise_select(conditional_error_rates, min_errors[1],
                                        heap[lin_model[1]], heap[min_weights[1]])
              live == lin_model[1]
              r == CHOOSE x \in 0 .. 2 : x \notin DOMAIN heap
          IN  /\ IF \A pr \in Pairs : FLt(conditional_error_rates[pr], min_errors[1][pr])
                 THEN /\ heap' = (live :> heap[live])
                      /\ min_weights' = Some(live)
                 ELSE /\ heap' = (live :> heap[live]) @@ (r :> merged[1])
                      /\ min_weights' = Some(r)
              /\ min_errors' = Some(merged[2])
              /\ scored' = Append(scored, [w |-> heap[live], e |-> conditional_error_rates])
    /\ iter' = iter + 1
    /\ pc' = "loop"
    /\ UNCHANGED << ds_len, subset_fracs, num_iter, lr, dataset_train, dataset_val,
                    dataset_eval, split_called, lin_model, updates, converged_bar,
                    reused, result, sel_in, sel_out >>

\* The live model is scored on the validation split and the scores are
\* merged: min_weights and min_errors are bound to the tensors that
\* pairwise_select has built.
ScoreSelect ==
    /\ pc = "score"
    /\ \E conditional_error_rates \in ErrorTensors :
          LET merged == pairwise_select(conditional_error_rates, min_errors[1],
                                        LiveWeights, BestWeights)
              live == lin_model[1]
              r == NewRef(heap)
          IN  /\ heap' = (live :> heap[live]) @@ (r :> merged[1])
              /\ min_weights' = Some(r)
              /\ min_errors' = Some(merged[2])
              /\ scored' = Append(scored, [w |-> LiveWeights, e |-> conditional_error_rates])
    /\ iter' = iter + 1
    /\ pc' = "loop"
    /\ UNCHANGED << ds_len, subset_fracs, num_iter, lr, dataset_train, dataset_val,
                    dataset_eval, split_called, lin_model, updates, converged_bar,
                    reused, result, sel_in, sel_out >>

\* torch.min keeping the last of several least values.
TorchMinLast(row) ==
    LET RECURSIVE Scan(_, _)
        Scan(p, best) ==
            IF p \notin DOMAIN row THEN best
            ELSE Scan(p + 1, IF FLt(row[best], row[p]) THEN best ELSE p)
        arg == Scan(1, 0)
    IN  [val |-> row[arg], idx |-> arg]

\* torch.min(row, dim): the least value of a row and the index of its first
\* occurrence, found by a scan from index 0.
TorchMin(row) ==
    LET RECURSIVE Scan(_, _)
        Scan(p, best) ==
            IF p \notin DOMAIN row THEN best
            ELSE Scan(p + 1, IF FLt(row[p], row[best]) THEN p ELSE best)
        arg == Scan(1, 0)
    IN  [val |-> row[arg], idx |-> arg]

\* The end of PGDOptim: with a validation split the model is rebuilt from
\* min_weights, without one the live model is returned; the bar is closed.
PGDReturn ==
    /\ pc = "loop"
    /\ ~LoopContinues
    /\ LET selectors == IF HasValidation THEN min_weights[1] ELSE lin_model[1]
       IN  /\ lin_model' = Some(selectors)
           /\ heap' = [r \in { selectors } |-> heap[r]]
    /\ pc' = "eval"
    /\ scored' = << >>
    /\ UNCHANGED << ds_len, subset_fracs, num_iter, lr, dataset_train, dataset_val,
                    dataset_eval, split_called, min_weights, min_errors, iter,
                    updates, converged_bar, reused, result, sel_in, sel_out >>

\* The rest of forward: the returned model is scored on the eval split, the
\* best predictor of each observation is found and the model is reduced to it.
Return ==
    /\ pc = "eval"
    /\ \E errors \in ErrorTensors :
          LET best == [o \in Obs |-> TorchMin([p \in Preds |-> errors[<< o, p >>]])]
              min_val == [o \in Obs |-> best[o].val]
              min_ids == [o \in Obs |-> best[o].idx]
          IN  result' = Some([errors |-> errors, min_val |-> min_val,
                              min_ids |-> min_ids,
                              reduced_model |-> Reduce(LiveWeights, min_ids)])
    /\ pc' = "ready"
    /\ reused' = TRUE
    /\ UNCHANGED << ds_len, subset_fracs, num_iter, lr, dataset_train, dataset_val,
                    dataset_eval, split_called, heap, lin_model, min_weights,
                    min_errors, iter, updates, converged_bar, scored, sel_in, sel_out >>

Next == New \/ Forward \/ GradUpdate \/ ScoreSelect \/ PGDReturn \/ Return

\* An instance with one or with two fractions, run for up to MaxIter iterations.
Init ==
    \E n \in RunLens, fracs \in RunFracs, iters \in 0 .. MaxIter, rate \in LearningRates :
        Unbuilt(n, fracs, iters, rate)

Spec == Init /\ [][Next]_vars

\* ------------------------------------------------- a direct pairwise_select
\* The values a weight entry of a direct call can hold.
SelectValues == { Fin(-3), Fin(7), PosInf, NegInf }
\* Weight tensors of a direct call: one vector, the same for every pair.
SelectWeights == { [pr \in Pairs |-> vec] : vec \in [Dims -> SelectValues] }

InitSelect ==
    /\ pc = "select"
    /\ \E curr_error \in ErrorTensors, min_error \in ErrorTensors,
          curr_weight \in SelectWeights, min_weight \in SelectWeights :
          sel_in = Some([curr_error |-> curr_error, min_error |-> min_error,
                         curr_weight |-> curr_weight, min_weight |-> min_weight])
    /\ sel_out = None
    /\ ds_len = 0
    /\ subset_fracs = << >>
    /\ num_iter = 0
    /\ lr = 0
    /\ dataset_train = None
    /\ dataset_val = None
    /\ dataset_eval = None
    /\ split_called = FALSE
    /\ heap = << >>
    /\ lin_model = None
    /\ min_weights = None
    /\ min_errors = None
    /\ iter = 0
    /\ updates = 0
    /\ converged_bar = 0
    /\ scored = << >>
    /\ reused = FALSE
    /\ result = None

PairwiseSelectCall ==
    /\ pc = "select"
    /\ sel_out' = Some(pairwise_select(sel_in[1].curr_error, sel_in[1].min_error,
                                       sel_in[1].curr_weight, sel_in[1].min_weight))
    /\ pc' = "selected"
    /\ UNCHANGED << ds_len, subset_fracs, num_iter, lr, dataset_train, dataset_val,
                    dataset_eval, split_called, heap, lin_model, min_weights,
                    min_errors, iter, updates, converged_bar, scored, reused,
                    result, sel_in >>

SpecSelect == InitSelect /\ [][PairwiseSelectCall]_vars

\* ================================================================== claims
Built == pc \notin { "new", "raised", "select", "selected" }

\* The fraction list is one the interface admits: one or two fractions, each
\* in (0, 1], with a sum of at most 1.
ValidFracs ==
    /\ Len(subset_fracs) \in { 1, 2 }
    /\ \A k \in 1 .. Len(subset_fracs) : subset_fracs[k] \in 1 .. FracDen
    /\ SumSeq(subset_fracs) <= FracDen

\* C1: once __init__ has run on a fraction list whose sum exceeds 1, or whose
\* length is neither 1 nor 2, it has raised, random_split has not been called
\* and the instance holds no split.
C1_BadFractionsRaiseBeforeSplit ==
    (pc # "new" /\ (SumSeq(subset_fracs) > FracDen \/ Len(subset_fracs) \notin { 1, 2 }))
        => /\ pc = "raised"
           /\ ~split_called
           /\ dataset_train = None /\ dataset_val = None /\ dataset_eval = None

\* C1 witness: three fractions with a sum of at most 1, on a non-empty
\* dataset, have been refused.
C1_Witness ==
    /\ pc = "raised"
    /\ Len(subset_fracs) = 3
    /\ SumSeq(subset_fracs) <= FracDen
    /\ SumSeq(subset_fracs) > 0
    /\ ds_len > 0

\* The subsets the instance holds, train first and eval last.
Subsets ==
    IF dataset_val = None
    THEN << dataset_train[1], dataset_eval[1] >>
    ELSE << dataset_train[1], dataset_val[1], dataset_eval[1] >>

Returned == pc = "ready" /\ result # None
Zeros == [pr \in Pairs |-> ZeroVec]
Ones == [pr \in Pairs |-> ErrOne]

\* a <= b on finite floats.
FLe(a, b) == a.cls = "fin" /\ b.cls = "fin" /\ a.v <= b.v

\* C3: in what forward has returned, min_val of an observation is the least
\* eval error of its row, min_ids is an index of the row and the lowest one
\* holding that least error, and reduced_model is the weight vector of the
\* returned model at that index.
C3_ReductionCorrect ==
    Returned =>
        \A o \in Obs :
            LET r == result[1]
            IN  /\ r.min_ids[o] \in Preds
                /\ \A p \in Preds : FLe(r.min_val[o], r.errors[<< o, p >>])
                /\ r.errors[<< o, r.min_ids[o] >>] = r.min_val[o]
                /\ \A p \in Preds : p < r.min_ids[o] => r.errors[<< o, p >>] # r.min_val[o]
                /\ r.reduced_model[o] = LiveWeights[<< o, r.min_ids[o] >>]

\* C3 witness: a call has returned where one observation has a tie for the
\* least error and another has its least error at the second predictor, with
\* different weight vectors at the two predictors.
C3_Witness ==
    /\ Returned
    /\ result[1].errors[<< 0, 0 >>] = result[1].errors[<< 0, 1 >>]
    /\ result[1].min_ids[0] = 0
    /\ result[1].min_ids[1] = 1
    /\ LiveWeights[<< 1, 0 >>] # LiveWeights[<< 1, 1 >>]
    /\ result[1].reduced_model[1] = LiveWeights[<< 1, 1 >>]

\* C4: a call never applies more than num_iter gradient updates, every
\* completed iteration has applied one, and when PGDOptim has returned
\* exactly num_iter have been applied, whatever the bar has counted.
C4_ExactlyNumIterUpdates ==
    Built =>
        /\ updates <= num_iter
        /\ (pc = "loop" => updates = iter)
        /\ (pc = "score" => updates = iter + 1)
        /\ (pc = "eval" \/ Returned) => updates = num_iter

\* C4 witness: PGDOptim has returned after two updates whose gradients were
\* all zero, so that the bar counted every pair as converged from the first
\* iteration on.
C4_Witness ==
    /\ pc = "eval"
    /\ ~HasValidation
    /\ num_iter >= 2
    /\ updates = num_iter
    /\ converged_bar = Cardinality(Pairs)
    /\ LiveWeights \in ObsInputs

\* C5: the mode follows the number of fractions and stays.  With one
\* fraction there is no validation split, no tracker and no scoring, and the
\* model returned is the live model after num_iter updates.  With two there
\* is a validation split, the tracker exists throughout a call, every
\* iteration has scored and merged, and the model returned holds min_weights.
C5_ModeFixedByFractions ==
    Built =>
        /\ Len(subset_fracs) \in { 1, 2 }
        /\ Len(subset_fracs) = 1 =>
              /\ dataset_val = None
              /\ min_weights = None /\ min_errors = None
              /\ scored = << >>
              /\ pc # "score"
              /\ (pc = "eval" \/ Returned) => (lin_model = Some(0) /\ updates = num_iter)
        /\ Len(subset_fracs) = 2 =>
              /\ dataset_val # None
              /\ (pc \in { "loop", "score", "eval" } \/ Returned)
                    => (min_weights # None /\ min_errors # None)
              /\ (pc \in { "loop", "score" }) => Len(scored) = iter
              /\ (pc = "loop" => updates = iter)
              /\ (pc = "score" => updates = iter + 1)
              /\ (pc = "eval" \/ Returned)
                    => (lin_model = min_weights /\ lin_model # Some(0) /\ iter = num_iter)

\* C5 witness: a call with a validation split has returned, after two
\* iterations, a model that is not the zero model.
C5_Witness ==
    /\ Returned
    /\ Len(subset_fracs) = 2
    /\ num_iter = 2
    /\ lin_model = min_weights
    /\ LiveWeights # Zeros

\* C6: in a call, no step raises an entry of min_errors, and no entry is
\* ever above the initial 1.
C6_BestErrorNonIncreasing ==
    /\ [](min_errors # None => \A pr \in Pairs : FLe(min_errors[1][pr], ErrOne))
    /\ [][(pc # "ready" /\ min_errors # None)
            => \A pr \in Pairs : FLe(min_errors'[1][pr], min_errors[1][pr])]_vars

\* C6 witness: after two merges, one pair has scored 1/2 and then 1 and its
\* best error is still 1/2, and another has improved twice, to 1/2 and to 0.
C6_Witness ==
    /\ pc = "loop"
    /\ Len(scored) >= 2
    /\ \E pr \in Pairs :
          /\ scored[1].e[pr] = Fin(1)
          /\ scored[2].e[pr] = ErrOne
          /\ min_errors[1][pr] = Fin(1)
    /\ \E pr \in Pairs :
          /\ scored[1].e[pr] = Fin(1)
          /\ scored[2].e[pr] = Fin(0)
          /\ min_errors[1][pr] = Fin(0)

\* C7 as claimed: for every pair, a direct pairwise_select returns the current
\* error and the whole current weight vector where the current error is
\* strictly lower, and the prior error and the whole prior weight vector
\* elsewhere.
C7_MergeIsSelection ==
    sel_out # None =>
        \A pr \in Pairs :
            IF FLt(sel_in[1].curr_error[pr], sel_in[1].min_error[pr])
            THEN /\ sel_out[1][2][pr] = sel_in[1].curr_error[pr]
                 /\ sel_out[1][1][pr] = sel_in[1].curr_weight[pr]
            ELSE /\ sel_out[1][2][pr] = sel_in[1].min_error[pr]
                 /\ sel_out[1][1][pr] = sel_in[1].min_weight[pr]

\* The same statement for weight tensors whose entries are all finite.
C7_FiniteMergeIsSelection ==
    (/\ sel_out # None
     /\ \A pr \in Pairs, d \in Dims :
           /\ sel_in[1].curr_weight[pr][d].cls = "fin"
           /\ sel_in[1].min_weight[pr][d].cls = "fin")
        => C7_MergeIsSelection

\* The earliest of the iterates scored in this call with the lowest error
\* on pair pr.
EarliestLowest(pr) ==
    CHOOSE k \in 1 .. Len(scored) :
        /\ \A j \in 1 .. Len(scored) : FLe(scored[k].e[pr], scored[j].e[pr])
        /\ \A j \in 1 .. (k - 1) : scored[j].e[pr] # scored[k].e[pr]

\* C8 as claimed: after every iteration with a validation split, min_errors
\* of a pair is the lowest error scored for it so far and min_weights holds
\* the weight vector of the earliest iterate with that error.
C8_BestIsEarliestLowestIterate ==
    (HasValidation /\ pc = "loop" /\ Len(scored) >= 1) =>
        \A pr \in Pairs :
            /\ min_errors[1][pr] = scored[EarliestLowest(pr)].e[pr]
            /\ BestWeights[pr] = scored[EarliestLowest(pr)].w[pr]

\* C9: with a validation split, a step other than the merge leaves the
\* tensor min_weights refers to, and min_errors, as they are; the gradient
\* update is such a step.
C9_TrackerChangedOnlyByMerge ==
    [][(HasValidation /\ pc \in { "loop", "eval" })
         => /\ heap'[min_weights'[1]] = heap[min_weights[1]]
            /\ min_errors' = min_errors]_vars

\* C9 witness: a merge has copied live weights into min_weights, and the
\* gradient update after it has moved the live weights away from them.
C9_Witness ==
    /\ HasValidation
    /\ pc = "score"
    /\ iter >= 1
    /\ \E pr \in Pairs :
          /\ BestWeights[pr] = scored[iter].w[pr]
          /\ LiveWeights[pr] # BestWeights[pr]

\* What a tracker started afresh holds for pair pr after the iterates scored
\* in this call: the lowest error below 1 with the weights of the earliest
\* iterate that had it, or the initial 1 and zero weights.
FreshTrackerError(pr) ==
    IF scored # << >> /\ FLt(scored[EarliestLowest(pr)].e[pr], ErrOne)
    THEN scored[EarliestLowest(pr)].e[pr]
    ELSE ErrOne

FreshTrackerWeight(pr) ==
    IF scored # << >> /\ FLt(scored[EarliestLowest(pr)].e[pr], ErrOne)
    THEN scored[EarliestLowest(pr)].w[pr]
    ELSE ZeroVec

\* C10: every call with a validation split enters its loop with zero
\* min_weights and unit min_errors, and throughout the loop the tracker is
\* what the iterates scored in this call alone make of a fresh tracker.
C10_TrackerFreshPerCall ==
    (HasValidation /\ pc \in { "loop", "score" }) =>
        /\ iter = 0 => (BestWeights = Zeros /\ min_errors[1] = Ones)
        /\ \A pr \in Pairs :
              /\ min_errors[1][pr] = FreshTrackerError(pr)
              /\ BestWeights[pr] = FreshTrackerWeight(pr)

\* C10 witness: a later call on an instance, whose earlier call has scored,
\* merged and returned, is at the start of its loop.
C10_Witness ==
    /\ reused
    /\ HasValidation
    /\ pc = "loop"
    /\ iter = 0
    /\ num_iter >= 1

====
